---- MODULE Spec2Model ----
(***************************************************************************)
(* Model of src/demo.py: the band plan of an interpolation filter          *)
(* (remezBands) and the three design functions built on it (remezDesign,   *)
(* firwin2Design, firlsDesign).                                            *)
(*                                                                         *)
(* Numbers.  The code works in floating point; the model works in exact    *)
(* rational arithmetic.  A number is a pair <<n, d>> with d > 0 standing   *)
(* for n/d.  An angle is kept as a multiple of pi: the angle <<n, d>> is   *)
(* (n/d)*pi radians, so np.pi is <<1, 1>>.  The bandwidth w0 ranges over   *)
(* the grid m*pi/W0Den, 0 < m < W0Den, which is inside (0, pi).            *)
(* Dividing an angle by 2*pi gives the plain number <<n, 2d>>.             *)
(***************************************************************************)
EXTENDS Integers, Sequences, FiniteSets

\* ------------------------------------------------------------------ bounds

\* Largest interpolation factor tried: L ranges over 2..MaxL.
MaxL == 7

\* Resolution of the w0 grid: w0 = m*pi/(10*W0Res).
W0Res == 2

W0Den == 10 * W0Res

\* The tolerable ripples tried (dB); -30 is the default of the three
\* design functions.
RippleDbs == {-30, -50}

Ls == 2..MaxL

W0s == 1..(W0Den - 1)

\* ------------------------------------------------------- exact arithmetic

Num(x) == x[1]

Den(x) == x[2]

Leq(x, y) == Num(x) * Den(y) <= Num(y) * Den(x)

Less(x, y) == Num(x) * Den(y) < Num(y) * Den(x)

Eq(x, y) == Num(x) * Den(y) = Num(y) * Den(x)

\* y - x
Diff(y, x) == <<Num(y) * Den(x) - Num(x) * Den(y), Den(y) * Den(x)>>

Zero == <<0, 1>>

Half == <<1, 2>>

\* np.pi, as a multiple of pi
Pi == <<1, 1>>

\* 0-based indexing, as in the code
At(s, i) == s[i + 1]

\* ------------------------------------------------------------- numpy parts

\* np.arange(0, stop) for a stop that is a whole number: 0, 1, ..., stop-1
Arange(stop) == [i \in 1..stop |-> i - 1]

RECURSIVE Insert(_, _)
Insert(x, s) ==
    IF s = <<>> THEN <<x>>
    ELSE IF Leq(x, Head(s)) THEN <<x>> \o s
    ELSE <<Head(s)>> \o Insert(x, Tail(s))

\* np.sort: ascending by value
RECURSIVE Sort(_)
Sort(s) == IF s = <<>> THEN <<>> ELSE Insert(Head(s), Sort(Tail(s)))

\* an array of angles divided by 2*np.pi
OverTwoPi(s) == [i \in 1..Len(s) |-> <<Num(s[i]), 2 * Den(s[i])>>]

\* ---------------------------------------------------------------- remezBands

\* (2 * k * np.pi + w0) / L, for every k of ks
LowerEdges(L, m, ks) ==
    [i \in 1..Len(ks) |-> <<2 * ks[i] * W0Den + m, W0Den * L>>]

\* the upper edges with 2 * k + 1 for 2 * (k + 1)
UpperEdgesOddMultiple(L, m, ks) ==
    [i \in 1..Len(ks) |-> <<(2 * ks[i] + 1) * W0Den - m, W0Den * L>>]

\* (2 * (k + 1) * np.pi - w0) / L, for every k of ks
UpperEdges(L, m, ks) ==
    [i \in 1..Len(ks) |-> <<2 * (ks[i] + 1) * W0Den - m, W0Den * L>>]

\* the k of the odd branch stopping one short, as in the even branch
KsFloor(L) == Arange(L \div 2)

\* the k of each branch
Ks(L) == IF L % 2 = 0 THEN Arange(L \div 2) ELSE Arange((L + 1) \div 2)

\* np.hstack((...)): the candidate edges, in the order the code stacks them
Candidates(L, m) ==
    IF L % 2 = 0
    THEN <<Zero, Pi>> \o LowerEdges(L, m, Ks(L)) \o UpperEdges(L, m, Ks(L))
    ELSE <<Zero>> \o LowerEdges(L, m, Ks(L)) \o UpperEdges(L, m, Ks(L))

\* np.sort(np.hstack(...)) / (2 * np.pi)
SortedEdges(L, m) == OverTwoPi(Sort(Candidates(L, m)))

\* transitionBands[:-1]
DropLast(s) == SubSeq(s, 1, Len(s) - 1)

\* the odd branch without its transitionBands[:-1]
TransitionBandsNoDrop(L, m) == SortedEdges(L, m)

\* transitionBands, as returned
TransitionBands(L, m) ==
    IF L % 2 = 0 THEN SortedEdges(L, m) ELSE DropLast(SortedEdges(L, m))

\* one gain per band edge instead of one per band
DesiredPerEdge(size) == [i \in 1..size |-> IF i = 1 THEN 1 ELSE 0]

\* desired = np.zeros(size // 2); desired[0] = 1.0
Desired(size) == [i \in 1..(size \div 2) |-> IF i = 1 THEN 1 ELSE 0]

remezBands(L, m) ==
    [bands |-> TransitionBands(L, m),
     gains |-> Desired(Len(TransitionBands(L, m)))]

\* ------------------------------------------------------ external routines

\* The routines of scipy.signal the design functions call.  Their algorithms
\* are not part of the repository; they are modelled by their contracts.

\* signal.kaiserord(ripple, width): Kaiser's estimate of the filter length,
\* ceil((A - 7.95) / 2.285 / (pi * width) + 1) with A = |ripple|, a function
\* of its two arguments alone (pi taken as 355/113).
kaiserord(ripple, width) ==
    LET A == IF ripple < 0 THEN -ripple ELSE ripple
        p == (200 * A - 1590) * 113 * Den(width)
        q == 457 * 355 * Num(width)
    IN  ((p + q - 1) \div q) + 1

Ordered(s) == \A i \in 1..(Len(s) - 1) : Leq(s[i], s[i + 1])

InRange(s) == \A i \in 1..Len(s) : Leq(Zero, s[i]) /\ Leq(s[i], Half)

\* What each designer accepts: remez takes an even number of ordered band
\* edges in [0, 0.5] and half as many gains; firwin2 takes ordered frequency
\* points from 0 to nyq and as many gains; firls takes an odd length, an even
\* number of ordered band edges and as many gains.
Accepts(designer, rq) ==
    /\ rq.ntaps > 0
    /\ Ordered(rq.freq)
    /\ InRange(rq.freq)
    /\ CASE designer = "remez" ->
              Len(rq.freq) % 2 = 0 /\ 2 * Len(rq.gain) = Len(rq.freq)
         [] designer = "firwin2" ->
              /\ Len(rq.gain) = Len(rq.freq)
              /\ Len(rq.freq) >= 2
              /\ Eq(rq.freq[1], Zero)
              /\ Eq(rq.freq[Len(rq.freq)], rq.nyq)
         [] designer = "firls" ->
              /\ rq.ntaps % 2 = 1
              /\ Len(rq.freq) % 2 = 0
              /\ Len(rq.gain) = Len(rq.freq)

NoExc == [kind |-> "none", designer |-> "none", tag |-> <<>>]

\* An exception as the designer raises it: it knows its own name and what
\* went wrong, and carries no tag of the function that called it.
Exc(kind, designer) == [kind |-> kind, designer |-> designer, tag |-> <<>>]

Returned(n) == [status |-> "returned", ntaps |-> n, exc |-> NoExc]

Raised(e) == [status |-> "raised", ntaps |-> 0, exc |-> e]

\* What a call of the designer can do: return ntaps coefficients, or raise.
\* A request it does not accept always raises; one it accepts may still fail
\* numerically.
Designer(designer, rq) ==
    IF Accepts(designer, rq)
    THEN {Returned(rq.ntaps), Raised(Exc("nonconvergence", designer))}
    ELSE {Raised(Exc("invalid", designer))}

\* ------------------------------------------------------- design functions

\* (2 * np.pi - 2 * w0) / (L * 2 * np.pi), as remezDesign writes it
RemezWidth(L, m) ==
    <<Num(Diff(<<2, 1>>, <<2 * m, W0Den>>)),
      Den(Diff(<<2, 1>>, <<2 * m, W0Den>>)) * L * 2>>

\* the same expression, as firwin2Design writes it
Firwin2Width(L, m) ==
    <<Num(Diff(<<2, 1>>, <<2 * m, W0Den>>)),
      Den(Diff(<<2, 1>>, <<2 * m, W0Den>>)) * L * 2>>

\* the half width (np.pi - w0) / (L * 2 * np.pi)
FirlsWidthHalf(L, m) ==
    <<Num(Diff(<<1, 1>>, <<m, W0Den>>)),
      Den(Diff(<<1, 1>>, <<m, W0Den>>)) * L * 2>>

\* the same expression, as firlsDesign writes it
FirlsWidth(L, m) ==
    <<Num(Diff(<<2, 1>>, <<2 * m, W0Den>>)),
      Den(Diff(<<2, 1>>, <<2 * m, W0Den>>)) * L * 2>>

\* remezDesign up to its call of signal.remez(ntaps, *bandsDesired)
RemezRequest(L, m, r) ==
    LET ntaps == kaiserord(r, RemezWidth(L, m))
        bandsDesired == remezBands(L, m)
    IN  [est |-> <<r, RemezWidth(L, m)>>, estimate |-> ntaps, ntaps |-> ntaps,
         freq |-> bandsDesired.bands, gain |-> bandsDesired.gains, nyq |-> Half]

\* firwin2Design taking bands[2] and bands[3] for bands[1] and bands[2]
Firwin2RequestShifted(L, m, r) ==
    LET ntaps == kaiserord(r, Firwin2Width(L, m))
        bands == remezBands(L, m).bands
    IN  [est |-> <<r, Firwin2Width(L, m)>>, estimate |-> ntaps, ntaps |-> ntaps,
         freq |-> <<Zero, At(bands, 2), At(bands, 3), Half>>,
         gain |-> <<1, 1, 0, 0>>, nyq |-> Half]

\* firwin2Design up to its call of
\* signal.firwin2(ntaps, [0, bands[1], bands[2], 0.5], [1, 1, 0, 0.0], nyq=0.5)
Firwin2Request(L, m, r) ==
    LET ntaps == kaiserord(r, Firwin2Width(L, m))
        bands == remezBands(L, m).bands
    IN  [est |-> <<r, Firwin2Width(L, m)>>, estimate |-> ntaps, ntaps |-> ntaps,
         freq |-> <<Zero, At(bands, 1), At(bands, 2), Half>>,
         gain |-> <<1, 1, 0, 0>>, nyq |-> Half]

\* ntaps += 1 without the test
FirlsTapsAlways(ntaps) == ntaps + 1

\* if ntaps % 2 == 0: ntaps += 1
FirlsTaps(ntaps) == IF ntaps % 2 = 0 THEN ntaps + 1 ELSE ntaps

\* np.vstack([g, g]).ravel(), without the transpose: g followed by g
FirlsEdgeGainsStacked(g) == g \o g

\* np.vstack([g, g]).T.ravel(): the rows g and g, transposed into Len(g) rows
\* of two, read row by row
FirlsEdgeGains(g) == [i \in 1..(2 * Len(g)) |-> g[(i + 1) \div 2]]

\* firlsDesign up to its call of signal.firls(ntaps, b, ..., nyq=0.5)
FirlsRequest(L, m, r) ==
    LET ntaps == kaiserord(r, FirlsWidth(L, m))
        bg == remezBands(L, m)
    IN  [est |-> <<r, FirlsWidth(L, m)>>, estimate |-> ntaps,
         ntaps |-> FirlsTaps(ntaps),
         freq |-> bg.bands, gain |-> FirlsEdgeGains(bg.gains), nyq |-> Half]

\* ------------------------------------------------------------------- state

Strategies == {"remezDesign", "firwin2Design", "firlsDesign"}

NoRequest ==
    [est |-> <<>>, estimate |-> 0, ntaps |-> 0, freq |-> <<>>, gain |-> <<>>,
     nyq |-> Zero]

NotCalled == [status |-> "none", ntaps |-> 0, exc |-> NoExc]

NoPlan == [sorted |-> <<>>, bands |-> <<>>, gains |-> <<>>]

VARIABLES
    L,         \* the interpolation factor the caller designs for
    m,         \* its bandwidth, w0 = m*pi/W0Den
    rippleDb,  \* its tolerable ripple
    plan,      \* what the caller's last call of remezBands computed
    req,       \* per design function: what its last call asked of scipy
    out,       \* per design function: how its last call ended
    last,      \* the design function called most recently
    invoked    \* the designers that call invoked, in order

vars == <<L, m, rippleDb, plan, req, out, last, invoked>>

\* A design function with the designer's failure wrapped: the exception
\* tagged with the function and the parameters of the call.
SurfaceTagged(s, res) ==
    IF res.status = "raised"
    THEN [res EXCEPT !.exc.tag = <<s, L, m, rippleDb>>]
    ELSE res

\* `return signal.remez(...)` (and firwin2, firls) with no try around it:
\* what the designer returns is returned, what it raises leaves the design
\* function as it is.
Surface(s, res) == res

Init ==
    /\ L \in Ls
    /\ m \in W0s
    /\ rippleDb \in RippleDbs
    /\ plan = NoPlan
    /\ req = [s \in Strategies |-> NoRequest]
    /\ out = [s \in Strategies |-> NotCalled]
    /\ last = "none"
    /\ invoked = <<>>

\* a call remezBands(L, w0) by the caller
CallRemezBands ==
    /\ plan' = [sorted |-> SortedEdges(L, m),
                bands |-> remezBands(L, m).bands,
                gains |-> remezBands(L, m).gains]
    /\ UNCHANGED <<L, m, rippleDb, req, out, last, invoked>>

\* a call remezDesign(L, w0, rippleDb): the estimate, the band plan, and one
\* call of signal.remez
CallRemezDesign ==
    \E res \in Designer("remez", RemezRequest(L, m, rippleDb)) :
        /\ req' = [req EXCEPT !["remezDesign"] = RemezRequest(L, m, rippleDb)]
        /\ out' = [out EXCEPT !["remezDesign"] = Surface("remezDesign", res)]
        /\ last' = "remezDesign"
        /\ invoked' = <<"remez">>
        /\ UNCHANGED <<L, m, rippleDb, plan>>

\* a call firwin2Design(L, w0, rippleDb): one call of signal.firwin2
CallFirwin2Design ==
    \E res \in Designer("firwin2", Firwin2Request(L, m, rippleDb)) :
        /\ req' = [req EXCEPT !["firwin2Design"] = Firwin2Request(L, m, rippleDb)]
        /\ out' = [out EXCEPT !["firwin2Design"] = Surface("firwin2Design", res)]
        /\ last' = "firwin2Design"
        /\ invoked' = <<"firwin2">>
        /\ UNCHANGED <<L, m, rippleDb, plan>>

\* a call firlsDesign(L, w0, rippleDb): one call of signal.firls
CallFirlsDesign ==
    \E res \in Designer("firls", FirlsRequest(L, m, rippleDb)) :
        /\ req' = [req EXCEPT !["firlsDesign"] = FirlsRequest(L, m, rippleDb)]
        /\ out' = [out EXCEPT !["firlsDesign"] = Surface("firlsDesign", res)]
        /\ last' = "firlsDesign"
        /\ invoked' = <<"firls">>
        /\ UNCHANGED <<L, m, rippleDb, plan>>

Next ==
    \/ CallRemezBands
    \/ CallRemezDesign
    \/ CallFirwin2Design
    \/ CallFirlsDesign

Spec == Init /\ [][Next]_vars

\* ---------------------------------------------------------------- helpers

Called(s) == req[s] # NoRequest

PlanMade == plan # NoPlan

\* w0 / (2 * pi * L)
ImageHalfWidth == <<m, 2 * W0Den * L>>

\* j/L - w0/(2*pi*L) and j/L + w0/(2*pi*L)
ImageLow(j) == <<2 * W0Den * j - m, 2 * W0Den * L>>

ImageHigh(j) == <<2 * W0Den * j + m, 2 * W0Den * L>>

\* the interval [bands[2i], bands[2i+1]] of a band plan
IntervalIs(bands, i, lo, hi) ==
    /\ 2 * i + 1 < Len(bands)
    /\ Eq(At(bands, 2 * i), lo)
    /\ Eq(At(bands, 2 * i + 1), hi)

\* ------------------------------------------------------------------ claims

\* C1: for every L >= 2 and w0 in (0, pi), the bands remezBands returns have
\* even length, are non-decreasing, lie in [0, 0.5], and start with 0.
C1_BandsShape ==
    PlanMade =>
        /\ Len(plan.bands) % 2 = 0
        /\ Len(plan.bands) > 0
        /\ Ordered(plan.bands)
        /\ InRange(plan.bands)
        /\ Eq(At(plan.bands, 0), Zero)

C1_Witness == PlanMade /\ L % 2 = 1 /\ L >= 5 /\ Len(plan.bands) = L + 1

\* C2: the intervals of the band plan are the baseband [0, w0/(2 pi L)], the
\* images [j/L - w0/(2 pi L), j/L + w0/(2 pi L)] for 1 <= j < L/2, and for
\* even L the interval [1/2 - w0/(2 pi L), 1/2]; so there are L+2 edges for
\* even L and L+1 for odd L (L=2, w0=0.9 pi: 4 edges, bands[1] = 0.225;
\* L=3, w0=0.9 pi: 4 edges, bands[1] = 0.15).
C2_BandsAreImages ==
    PlanMade =>
        /\ Len(plan.bands) = IF L % 2 = 0 THEN L + 2 ELSE L + 1
        /\ IntervalIs(plan.bands, 0, Zero, ImageHalfWidth)
        /\ \A j \in 1..L :
              2 * j < L => IntervalIs(plan.bands, j, ImageLow(j), ImageHigh(j))
        /\ L % 2 = 0 => IntervalIs(plan.bands, L \div 2, ImageLow(L \div 2), Half)
        /\ (L = 2 /\ 10 * m = 9 * W0Den) =>
              Len(plan.bands) = 4 /\ Eq(At(plan.bands, 1), <<225, 1000>>)
        /\ (L = 3 /\ 10 * m = 9 * W0Den) =>
              Len(plan.bands) = 4 /\ Eq(At(plan.bands, 1), <<15, 100>>)

C2_Witness ==
    /\ PlanMade
    /\ L = 3
    /\ 10 * m = 9 * W0Den
    /\ Len(plan.bands) = 4
    /\ Eq(At(plan.bands, 1), <<15, 100>>)

\* C3: the gains remezBands returns are half as many as the bands, the first
\* is 1 and every other one is 0.
C3_GainsShape ==
    PlanMade =>
        /\ 2 * Len(plan.gains) = Len(plan.bands)
        /\ At(plan.gains, 0) = 1
        /\ \A i \in 1..(Len(plan.gains) - 1) : At(plan.gains, i) = 0

C3_Witness == PlanMade /\ Len(plan.gains) >= 3 /\ At(plan.gains, 2) = 0

\* C4: the edge gains firlsDesign passes to the least-squares designer are
\* the gains of the band plan with every entry repeated twice in a row, as
\* many as the band edges passed with them ([1, 0, 0] gives
\* [1, 1, 0, 0, 0, 0]).
C4_FirlsGainsDoubled ==
    Called("firlsDesign") =>
        LET g == remezBands(L, m).gains
            e == req["firlsDesign"].gain
        IN  /\ Len(e) = 2 * Len(g)
            /\ \A i \in 0..(Len(g) - 1) :
                  At(e, 2 * i) = At(g, i) /\ At(e, 2 * i + 1) = At(g, i)
            /\ Len(e) = Len(req["firlsDesign"].freq)
            /\ g = <<1, 0, 0>> => e = <<1, 1, 0, 0, 0, 0>>

C4_Witness ==
    /\ Called("firlsDesign")
    /\ remezBands(L, m).gains = <<1, 0, 0>>
    /\ req["firlsDesign"].gain = <<1, 1, 0, 0, 0, 0>>

\* C5: firwin2Design passes exactly the 4 frequency points
\* [0, bands[1], bands[2], 0.5] and the 4 gains [1, 1, 0, 0], whatever the
\* number of band edges; bands[1] and bands[2] exist and the points are
\* ordered, 0 <= bands[1] <= bands[2] <= 0.5.
C5_Firwin2FourPoints ==
    Called("firwin2Design") =>
        LET bands == remezBands(L, m).bands
            f == req["firwin2Design"].freq
        IN  /\ Len(bands) >= 3
            /\ Len(f) = 4
            /\ req["firwin2Design"].gain = <<1, 1, 0, 0>>
            /\ Eq(At(f, 0), Zero)
            /\ At(f, 1) = At(bands, 1)
            /\ At(f, 2) = At(bands, 2)
            /\ Eq(At(f, 3), Half)
            /\ Leq(Zero, At(bands, 1))
            /\ Leq(At(bands, 1), At(bands, 2))
            /\ Leq(At(bands, 2), Half)

C5_Witness ==
    /\ Called("firwin2Design")
    /\ Len(remezBands(L, m).bands) > 4
    /\ Len(req["firwin2Design"].freq) = 4

\* C6: the three design functions give the order estimator the same
\* arguments and get the same estimate n; remezDesign and firwin2Design pass
\* n to their designer, firlsDesign passes n if n is odd and n+1 if n is
\* even, so the least-squares designer always gets an odd length.
C6_SameEstimate ==
    /\ \A s, t \in Strategies :
          (Called(s) /\ Called(t)) =>
              /\ req[s].est[1] = req[t].est[1]
              /\ Eq(req[s].est[2], req[t].est[2])
              /\ req[s].estimate = req[t].estimate
    /\ \A s \in Strategies :
          Called(s) => req[s].est[1] = rippleDb /\ req[s].estimate > 0
    /\ Called("remezDesign") =>
          req["remezDesign"].ntaps = req["remezDesign"].estimate
    /\ Called("firwin2Design") =>
          req["firwin2Design"].ntaps = req["firwin2Design"].estimate
    /\ Called("firlsDesign") =>
          LET n == req["firlsDesign"].estimate
          IN  /\ req["firlsDesign"].ntaps = IF n % 2 = 1 THEN n ELSE n + 1
              /\ req["firlsDesign"].ntaps % 2 = 1

C6_Witness ==
    /\ \A s \in Strategies : Called(s)
    /\ req["remezDesign"].estimate % 2 = 0
    /\ req["firwin2Design"].ntaps = req["remezDesign"].ntaps
    /\ req["firlsDesign"].ntaps = req["remezDesign"].ntaps + 1

\* C7, as claimed: when the designer fails, the design call fails without a
\* retry and without another strategy's designer, and the failure the caller
\* gets names the strategy and the parameters (L, w0, rippleDb).
C7_FailureNamesStrategy ==
    \A s \in Strategies :
        out[s].status = "raised" =>
            /\ last = s => Len(invoked) = 1
            /\ out[s].exc.tag = <<s, L, m, rippleDb>>

\* C7, amended: when the designer fails, the design call fails without a
\* retry and without another strategy's designer, and the caller gets the
\* designer's own exception, unchanged: it names the designer and carries
\* nothing of the strategy or of (L, w0, rippleDb).
C7_FailurePropagatesUnchanged ==
    \A s \in Strategies :
        /\ out[s].status = "raised" =>
              /\ out[s].exc.kind \in {"nonconvergence", "invalid"}
              /\ out[s].exc.tag = <<>>
              /\ out[s].ntaps = 0
              /\ out[s].exc.designer =
                    CASE s = "remezDesign" -> "remez"
                      [] s = "firwin2Design" -> "firwin2"
                      [] s = "firlsDesign" -> "firls"
        /\ last = s => invoked = <<out[s].exc.designer>> \/ out[s].status = "returned"
        /\ last = s => Len(invoked) = 1

C7_Witness ==
    /\ last = "firlsDesign"
    /\ out["firlsDesign"].status = "raised"
    /\ out["firlsDesign"].exc.kind = "nonconvergence"
    /\ out["remezDesign"].status = "returned"
    /\ invoked = <<"firls">>

\* C9: for odd L the element remezBands drops, the last of the sorted
\* normalized candidates, is ((L+1) pi - w0)/(2 pi L); it is greater than
\* 0.5 and no other candidate is.
C9_DroppedEdgeBeyondNyquist ==
    (PlanMade /\ L % 2 = 1) =>
        LET s == plan.sorted
            d == s[Len(s)]
        IN  /\ Len(s) = Len(plan.bands) + 1
            /\ plan.bands = SubSeq(s, 1, Len(s) - 1)
            /\ Eq(d, <<(L + 1) * W0Den - m, 2 * W0Den * L>>)
            /\ Less(Half, d)
            /\ \A i \in 1..(Len(s) - 1) : Leq(s[i], Half)
            /\ \E i \in 1..Len(Candidates(L, m)) :
                  Eq(OverTwoPi(Candidates(L, m))[i], d)

C9_Witness ==
    /\ PlanMade
    /\ L = 5
    /\ Less(Half, plan.sorted[Len(plan.sorted)])
    /\ Len(plan.bands) = 6

\* C10, as claimed: the transition width each design function gives the
\* order estimator is half of bands[2] - bands[1].
C10_WidthIsHalfGap ==
    \A s \in Strategies :
        Called(s) =>
            LET bands == remezBands(L, m).bands
                w == req[s].est[2]
            IN  Eq(<<2 * Num(w), Den(w)>>, Diff(At(bands, 2), At(bands, 1)))

\* C10, amended: the transition width each design function gives the order
\* estimator, (2 pi - 2 w0)/(L 2 pi), is the whole gap bands[2] - bands[1]
\* between the passband edge and the nearest stopband edge.
C10_WidthIsGap ==
    \A s \in Strategies :
        Called(s) =>
            LET bands == remezBands(L, m).bands
                w == req[s].est[2]
            IN  /\ Eq(w, Diff(At(bands, 2), At(bands, 1)))
                /\ Eq(w, <<W0Den - m, W0Den * L>>)
                /\ Less(Zero, w)

C10_Witness ==
    /\ \A s \in Strategies : Called(s)
    /\ L = 4
    /\ 10 * m = 9 * W0Den
    /\ Eq(req["firwin2Design"].est[2], <<25, 1000>>)

====
